---- MODULE Spec2Model ----
(***************************************************************************)
(* A model of the TCP multiplexer of muxable/webrtc-ice:                   *)
(*   tcp_packet_conn.go  tcpPacketConn, the aggregator of physical         *)
(*                       connections behind one packet connection;         *)
(*   tcp_mux.go          TCPMuxDefault, the router that accepts            *)
(*                       connections and hands them to aggregators.        *)
(* Every goroutine is a process with a program counter; a critical section *)
(* of tcpPacketConn.mu never blocks and is one atomic step; the router's   *)
(* lock TCPMuxDefault.mu is held across blocking calls and is modelled by  *)
(* its owner.                                                              *)
(***************************************************************************)
EXTENDS Integers, Sequences, FiniteSets, TLC

\* ------------------------------------------------------------- bounds
\* physical connections that exist in a run
MaxConns == 2
\* peer addresses a connection may come from
MaxAddrs == 3
\* frames a peer sends on one connection after the first one
MaxFrames == 1
\* tcpPacketParams.ReadBuffer: capacity of recvChan
ReadBuffer == 1
\* goroutines of the consumer that call tcpPacketConn.Close directly
MaxClosers == 2
\* tcpPacketConns that are ever constructed
MaxPacketConns == 2

Conns == 1 .. MaxConns
PacketConns == 1 .. MaxPacketConns
NoConn == 0
NoPacketConn == 0

\* peer addresses; net.ParseIP(host).To4() == nil holds of the IPv6 ones,
\* which are those from 3 on
Addrs == 1 .. MaxAddrs
IsIPv6(a) == a >= 3

\* the username fragments a STUN Binding Request may carry
MaxUfrags == 1
Ufrags == 1 .. MaxUfrags

\* frames written on the stream whose bytes are followed
MaxStreamFrames == 2
\* length of the long payload, one whose length needs both header bytes
LongLen == 258

\* goroutines: the consumer's that call tcpPacketConn.Close, the caller of
\* TCPMuxDefault.Close, and the watcher createConn starts for a
\* tcpPacketConn, which calls RemoveConnByUfrag
ExtClosers == {<<"ext", i>> : i \in 1 .. MaxClosers}
MuxCloser == <<"mux", 0>>
Watcher(p) == <<"watch", p>>
Watchers == {Watcher(p) : p \in PacketConns}
Closers == ExtClosers \cup {MuxCloser} \cup Watchers
NoThread == <<"none", 0>>

VARIABLES
    raddr,       \* per connection: conn.RemoteAddr(), fixed when it connects
    made,        \* the tcpPacketConns constructed so far
    conns,       \* t.conns: peer address -> physical connection
    recvChan,    \* t.recvChan: the buffered records, oldest first
    recvClosed,  \* how many times close(t.recvChan) ran
    closedChan,  \* how many times close(t.closedChan) ran
    closeOnce,   \* t.closeOnce: whether Do has run its function
    wg,          \* t.wg: the counter of the WaitGroup
    tpc,         \* per connection: where the goroutine of AddConn stands
    tp,          \* per connection: the tcpPacketConn its goroutine belongs to
    tfirst,      \* per connection: firstPacketData != nil
    tpkt,        \* per connection: the packet handleRecv is about to send
    tch,         \* per connection: handleRecv's local recvChan (nil or not)
    nread,       \* per connection: frames read so far by startReading
    connClosed,  \* per connection: how many times its Close() was called
    cl_pc,       \* per closer: where its tcpPacketConn.Close stands
    cl_p,        \* per closer: the tcpPacketConn it closes
    cl_should,   \* per closer: shouldCloseRecvChan
    lastRecv,    \* per connection: index of the last record ReadFrom returned
    panicked,    \* the panic of the runtime, if a goroutine caused one
    ret,         \* what the step just taken returned, if it ended an API call
    m_closed,    \* m.closed
    connsIPv4,   \* m.connsIPv4: ufrag -> tcpPacketConn
    connsIPv6,   \* m.connsIPv6: ufrag -> tcpPacketConn
    m_mu,        \* m.mu: the goroutine that holds it
    m_wg,        \* m.wg: the counter of the WaitGroup
    lclosed,     \* the listener was closed
    apc,         \* where the accept loop (start) stands
    hpc,         \* per connection: where its handleConn stands
    hufrag,      \* per connection: the ufrag handleConn decoded
    r_pc,        \* per remover: where its RemoveConnByUfrag stands
    r_ufrag,     \* per remover: the ufrag it removes
    mpc,         \* where TCPMuxDefault.Close stands
    mtodo,       \* the tcpPacketConns Close's loops have yet to close
    payloads,    \* one stream: the payloads its writer sends, in order
    bufcap,      \* one stream: cap(buf) of its reader
    nsent,       \* one stream: the calls of writeStreamingPacket made
    wire,        \* one stream: the bytes written and not yet read
    rd,          \* one stream: the locals of the running readStreamingPacket
    got          \* one stream: what the calls of readStreamingPacket returned

aggVars == <<made, conns, recvChan, recvClosed, closedChan, closeOnce, wg, tpc,
             tp, tfirst, tpkt, tch, nread, connClosed, cl_pc, cl_p, cl_should,
             lastRecv, panicked, ret>>

\* the stream on which the framing is followed byte by byte
streamVars == <<payloads, bufcap, nsent, wire, rd, got>>

muxVars == <<raddr, m_closed, connsIPv4, connsIPv6, m_mu, m_wg, lclosed, apc, hpc,
             hufrag, r_pc, r_ufrag, mpc, mtodo, streamVars>>

vars == <<aggVars, muxVars>>

\* conn.RemoteAddr().String()
AddrOf(c) == raddr[c]

NoPkt == [idx |-> 0, err |-> FALSE]
Record(c, i, e) == [conn |-> c, idx |-> i, err |-> e]
Ret(o, e, v) == [op |-> o, err |-> e, val |-> v]
NoRet == Ret("none", "nil", 0)

\* newTCPPacketConn: the fields of a fresh tcpPacketConn
InitAgg ==
    /\ conns = [p \in PacketConns |-> [a \in Addrs |-> NoConn]]
    /\ recvChan = [p \in PacketConns |-> <<>>]
    /\ recvClosed = [p \in PacketConns |-> 0]
    /\ closedChan = [p \in PacketConns |-> 0]
    /\ closeOnce = [p \in PacketConns |-> FALSE]
    /\ wg = [p \in PacketConns |-> 0]
    /\ tpc = [c \in Conns |-> "idle"]
    /\ tp = [c \in Conns |-> NoPacketConn]
    /\ tfirst = [c \in Conns |-> FALSE]
    /\ tpkt = [c \in Conns |-> NoPkt]
    /\ tch = [c \in Conns |-> "nil"]
    /\ nread = [c \in Conns |-> 0]
    /\ connClosed = [c \in Conns |-> 0]
    /\ cl_pc = [k \in Closers |-> "idle"]
    /\ cl_p = [k \in Closers |-> NoPacketConn]
    /\ cl_should = [k \in Closers |-> FALSE]
    /\ lastRecv = [c \in Conns |-> -1]
    /\ panicked = "no"
    /\ ret = NoRet

\* isClosed: a receive from closedChan succeeds only once it is closed
isClosed(p) == closedChan[p] > 0

\* ------------------------------------------------------------ AddConn
\* AddConn that starts the read goroutine without sending firstPacketData
AddConnDropsFirst(p, c, first) ==
    IF isClosed(p)
    THEN /\ ret' = Ret("AddConn", "ErrClosedPipe", 0)
         /\ UNCHANGED <<conns, wg, tpc, tp, tfirst>>
    ELSE IF conns[p][AddrOf(c)] # NoConn
    THEN /\ ret' = Ret("AddConn", "errConnectionAddrAlreadyExist", 0)
         /\ UNCHANGED <<conns, wg, tpc, tp, tfirst>>
    ELSE /\ conns' = [conns EXCEPT ![p][AddrOf(c)] = c]
         /\ wg' = [wg EXCEPT ![p] = @ + 1]
         /\ tpc' = [tpc EXCEPT ![c] = "read"]
         /\ tp' = [tp EXCEPT ![c] = p]
         /\ tfirst' = [tfirst EXCEPT ![c] = first]
         /\ ret' = Ret("AddConn", "nil", 0)

\* AddConn without the check of closedChan
AddConnIgnoresClosed(p, c, first) ==
    IF conns[p][AddrOf(c)] # NoConn
    THEN /\ ret' = Ret("AddConn", "errConnectionAddrAlreadyExist", 0)
         /\ UNCHANGED <<conns, wg, tpc, tp, tfirst>>
    ELSE /\ conns' = [conns EXCEPT ![p][AddrOf(c)] = c]
         /\ wg' = [wg EXCEPT ![p] = @ + 1]
         /\ tpc' = [tpc EXCEPT ![c] = IF first THEN "first" ELSE "read"]
         /\ tp' = [tp EXCEPT ![c] = p]
         /\ tfirst' = [tfirst EXCEPT ![c] = first]
         /\ ret' = Ret("AddConn", "nil", 0)

\* AddConn without the check of t.conns: a second connection replaces the
\* one registered under its peer address
AddConnReplaces(p, c, first) ==
    IF isClosed(p)
    THEN /\ ret' = Ret("AddConn", "ErrClosedPipe", 0)
         /\ UNCHANGED <<conns, wg, tpc, tp, tfirst>>
    ELSE /\ conns' = [conns EXCEPT ![p][AddrOf(c)] = c]
         /\ wg' = [wg EXCEPT ![p] = @ + 1]
         /\ tpc' = [tpc EXCEPT ![c] = IF first THEN "first" ELSE "read"]
         /\ tp' = [tp EXCEPT ![c] = p]
         /\ tfirst' = [tfirst EXCEPT ![c] = first]
         /\ ret' = Ret("AddConn", "nil", 0)

\* AddConn under t.mu; it constrains conns, wg, tpc, tp, tfirst and ret
AddConnBody(p, c, first) ==
    IF isClosed(p)
    THEN /\ ret' = Ret("AddConn", "ErrClosedPipe", 0)
         /\ UNCHANGED <<conns, wg, tpc, tp, tfirst>>
    ELSE IF conns[p][AddrOf(c)] # NoConn
    THEN /\ ret' = Ret("AddConn", "errConnectionAddrAlreadyExist", 0)
         /\ UNCHANGED <<conns, wg, tpc, tp, tfirst>>
    ELSE /\ conns' = [conns EXCEPT ![p][AddrOf(c)] = c]
         /\ wg' = [wg EXCEPT ![p] = @ + 1]
         /\ tpc' = [tpc EXCEPT ![c] = IF first THEN "first" ELSE "read"]
         /\ tp' = [tp EXCEPT ![c] = p]
         /\ tfirst' = [tfirst EXCEPT ![c] = first]
         /\ ret' = Ret("AddConn", "nil", 0)

\* a caller that holds a tcpPacketConn adds an open connection to it
AddConn(p, c, first) ==
    /\ p \in made
    /\ connClosed[c] = 0
    /\ tp[c] \in {NoPacketConn, p}
    /\ hpc[c] = "idle"
    /\ AddConnBody(p, c, first)
    /\ UNCHANGED <<muxVars, made, recvChan, recvClosed, closedChan, closeOnce,
                   tpkt, tch, nread, connClosed, cl_pc, cl_p, cl_should, lastRecv, panicked>>

\* ------------------------------------------- the goroutine of AddConn
\* t.recvChan <- pkt: blocks while the buffer is full, panics once closed
ChanSend(p, rec) ==
    IF recvClosed[p] > 0
    THEN /\ panicked' = "send on closed channel"
         /\ UNCHANGED recvChan
    ELSE /\ Len(recvChan[p]) < ReadBuffer
         /\ recvChan' = [recvChan EXCEPT ![p] = Append(@, rec)]
         /\ UNCHANGED panicked

\* t.recvChan <- streamingPacket{firstPacketData, ...}, a bare send
FirstSend(c) ==
    /\ tpc[c] = "first"
    /\ ChanSend(tp[c], Record(c, 0, FALSE))
    /\ tpc' = [tpc EXCEPT ![c] = "read"]
    /\ UNCHANGED <<muxVars, made, conns, recvClosed, closedChan, closeOnce, wg, tp,
                   tfirst, tpkt, tch, nread, connClosed, cl_pc, cl_p,
                   cl_should, lastRecv>>
    /\ ret' = NoRet

\* readStreamingPacket returns the next frame the peer sent
ReadFrame(c) ==
    /\ tpc[c] = "read"
    /\ connClosed[c] = 0
    /\ nread[c] < MaxFrames
    /\ nread' = [nread EXCEPT ![c] = @ + 1]
    /\ tpkt' = [tpkt EXCEPT ![c] = [idx |-> nread[c] + 1, err |-> FALSE]]
    /\ tpc' = [tpc EXCEPT ![c] = "recv"]
    /\ UNCHANGED <<muxVars, made, conns, recvChan, recvClosed, closedChan, closeOnce, wg,
                   tp, tfirst, tch, connClosed, cl_pc, cl_p, cl_should,
                   lastRecv, panicked>>
    /\ ret' = NoRet

\* readStreamingPacket fails: the peer closed or reset the stream, or the
\* declared length exceeds the buffer
ReadFault(c) ==
    /\ tpc[c] = "read"
    /\ connClosed[c] = 0
    /\ tpkt' = [tpkt EXCEPT ![c] = [idx |-> nread[c] + 1, err |-> TRUE]]
    /\ tpc' = [tpc EXCEPT ![c] = "recv"]
    /\ UNCHANGED <<muxVars, made, conns, recvChan, recvClosed, closedChan, closeOnce, wg,
                   tp, tfirst, tch, nread, connClosed, cl_pc, cl_p, cl_should,
                   lastRecv, panicked>>
    /\ ret' = NoRet

\* readStreamingPacket fails because the connection was closed locally
ReadClosed(c) ==
    /\ tpc[c] = "read"
    /\ connClosed[c] > 0
    /\ tpkt' = [tpkt EXCEPT ![c] = [idx |-> nread[c] + 1, err |-> TRUE]]
    /\ tpc' = [tpc EXCEPT ![c] = "recv"]
    /\ UNCHANGED <<muxVars, made, conns, recvChan, recvClosed, closedChan, closeOnce, wg,
                   tp, tfirst, tch, nread, connClosed, cl_pc, cl_p, cl_should,
                   lastRecv, panicked>>
    /\ ret' = NoRet

\* handleRecv up to t.mu.Unlock(): recvChan is nil when already closed
HandleRecvLock(c) ==
    /\ tpc[c] = "recv"
    /\ tch' = [tch EXCEPT ![c] = IF isClosed(tp[c]) THEN "nil" ELSE "recvChan"]
    /\ tpc' = [tpc EXCEPT ![c] = "select"]
    /\ UNCHANGED <<muxVars, made, conns, recvChan, recvClosed, closedChan, closeOnce, wg,
                   tp, tfirst, tpkt, nread, connClosed, cl_pc, cl_p, cl_should,
                   lastRecv, panicked>>
    /\ ret' = NoRet

\* startReading after handleRecv: removeConn after an error, else loop
AfterRecv(c) == IF tpkt[c].err THEN "remove" ELSE "read"

\* handleRecv's select takes case recvChan <- pkt
HandleRecvSend(c) ==
    /\ tpc[c] = "select"
    /\ tch[c] = "recvChan"
    /\ ChanSend(tp[c], Record(c, tpkt[c].idx, tpkt[c].err))
    /\ tpc' = [tpc EXCEPT ![c] = AfterRecv(c)]
    /\ tpkt' = [tpkt EXCEPT ![c] = NoPkt]
    /\ tch' = [tch EXCEPT ![c] = "nil"]
    /\ UNCHANGED <<muxVars, made, conns, recvClosed, closedChan, closeOnce, wg, tp,
                   tfirst, nread, connClosed, cl_pc, cl_p,
                   cl_should, lastRecv>>
    /\ ret' = NoRet

\* handleRecv's select takes case <-t.closedChan
HandleRecvClosed(c) ==
    /\ tpc[c] = "select"
    /\ isClosed(tp[c])
    /\ tpc' = [tpc EXCEPT ![c] = AfterRecv(c)]
    /\ tpkt' = [tpkt EXCEPT ![c] = NoPkt]
    /\ tch' = [tch EXCEPT ![c] = "nil"]
    /\ UNCHANGED <<muxVars, made, conns, recvChan, recvClosed, closedChan, closeOnce, wg,
                   tp, tfirst, nread, connClosed, cl_pc, cl_p,
                   cl_should, lastRecv, panicked>>
    /\ ret' = NoRet

\* the connections registered in t.conns
Registered(p) == {conns[p][a] : a \in Addrs} \ {NoConn}

\* removeConn that closes and deletes every registered connection
RemoveConnAll(c) ==
    /\ tpc[c] = "remove"
    /\ connClosed' = [d \in Conns |->
                        IF d = c \/ d \in Registered(tp[c])
                        THEN connClosed[d] + 1 ELSE connClosed[d]]
    /\ conns' = [conns EXCEPT ![tp[c]] = [a \in Addrs |-> NoConn]]
    /\ wg' = [wg EXCEPT ![tp[c]] = @ - 1]
    /\ tpc' = [tpc EXCEPT ![c] = "done"]
    /\ UNCHANGED <<muxVars, made, recvChan, recvClosed, closedChan, closeOnce, tp,
                   tfirst, tpkt, tch, nread, cl_pc, cl_p, cl_should, lastRecv, panicked>>
    /\ ret' = NoRet

\* removeConn, then startReading returns and the deferred wg.Done runs
RemoveConn(c) ==
    /\ tpc[c] = "remove"
    /\ connClosed' = [connClosed EXCEPT ![c] = @ + 1]
    /\ conns' = [conns EXCEPT ![tp[c]][AddrOf(c)] = NoConn]
    /\ wg' = [wg EXCEPT ![tp[c]] = @ - 1]
    /\ tpc' = [tpc EXCEPT ![c] = "done"]
    /\ UNCHANGED <<muxVars, made, recvChan, recvClosed, closedChan, closeOnce, tp,
                   tfirst, tpkt, tch, nread, cl_pc, cl_p, cl_should, lastRecv, panicked>>
    /\ ret' = NoRet

\* ------------------------------------------------ tcpPacketConn.Close
\* Close without closeOnce: every call closes closedChan and goes on to
\* close recvChan
CloseLockNoOnce(k, p) ==
    /\ closeOnce' = [closeOnce EXCEPT ![p] = TRUE]
    /\ closedChan' = [closedChan EXCEPT ![p] = @ + 1]
    /\ panicked' = IF closedChan[p] > 0
                   THEN "close of closed channel" ELSE panicked
    /\ cl_should' = [cl_should EXCEPT ![k] = TRUE]
    /\ connClosed' = [c \in Conns |->
                        IF c \in Registered(p) THEN connClosed[c] + 1
                        ELSE connClosed[c]]
    /\ conns' = [conns EXCEPT ![p] = [a \in Addrs |-> NoConn]]
    /\ cl_pc' = [cl_pc EXCEPT ![k] = "wait"]
    /\ cl_p' = [cl_p EXCEPT ![k] = p]

\* Close up to t.mu.Unlock(): closeOnce fires the closing signal, then every
\* registered connection is closed and deleted. It constrains closedChan,
\* closeOnce, panicked, connClosed, conns, cl_pc, cl_p and cl_should.
CloseLockBody(k, p) ==
    /\ IF closeOnce[p]
       THEN /\ cl_should' = [cl_should EXCEPT ![k] = FALSE]
            /\ UNCHANGED <<closedChan, closeOnce, panicked>>
       ELSE /\ closeOnce' = [closeOnce EXCEPT ![p] = TRUE]
            /\ closedChan' = [closedChan EXCEPT ![p] = @ + 1]
            /\ panicked' = IF closedChan[p] > 0
                           THEN "close of closed channel" ELSE panicked
            /\ cl_should' = [cl_should EXCEPT ![k] = TRUE]
    /\ connClosed' = [c \in Conns |->
                        IF c \in Registered(p) THEN connClosed[c] + 1
                        ELSE connClosed[c]]
    /\ conns' = [conns EXCEPT ![p] = [a \in Addrs |-> NoConn]]
    /\ cl_pc' = [cl_pc EXCEPT ![k] = "wait"]
    /\ cl_p' = [cl_p EXCEPT ![k] = p]

\* a goroutine of the consumer calls Close on a tcpPacketConn; these
\* goroutines are interchangeable and start in the order of their numbers
CloseLock(k, p) ==
    /\ k \in ExtClosers
    /\ \A i \in 1 .. (k[2] - 1) : cl_pc[<<"ext", i>>] # "idle"
    /\ p \in made
    /\ cl_pc[k] = "idle"
    /\ CloseLockBody(k, p)
    /\ UNCHANGED <<muxVars, made, recvChan, recvClosed, wg, tpc, tp, tfirst,
                   tpkt, tch, nread, lastRecv>>
    /\ ret' = NoRet

\* Close without t.wg.Wait()
CloseNoWait(k) ==
    /\ cl_pc[k] = "wait"
    /\ IF cl_should[k]
       THEN /\ recvClosed' = [recvClosed EXCEPT ![cl_p[k]] = @ + 1]
            /\ panicked' = IF recvClosed[cl_p[k]] > 0
                           THEN "close of closed channel" ELSE panicked
       ELSE UNCHANGED <<recvClosed, panicked>>
    /\ cl_pc' = [cl_pc EXCEPT ![k] = "ret"]
    /\ cl_should' = [cl_should EXCEPT ![k] = FALSE]
    /\ ret' = Ret("Close", "nil", 0)
    /\ UNCHANGED <<muxVars, made, conns, recvChan, closedChan, closeOnce, wg,
                   tpc, tp, tfirst, tpkt, tch, nread, connClosed, cl_p,
                   lastRecv>>

\* Close from t.wg.Wait() to its return: once the counter is zero (it stays
\* zero, AddConn refusing since the closing signal), recvChan is closed by
\* the call that fired the signal, and nil is returned
CloseWait(k) ==
    /\ cl_pc[k] = "wait"
    /\ wg[cl_p[k]] = 0
    /\ IF cl_should[k]
       THEN /\ recvClosed' = [recvClosed EXCEPT ![cl_p[k]] = @ + 1]
            /\ panicked' = IF recvClosed[cl_p[k]] > 0
                           THEN "close of closed channel" ELSE panicked
       ELSE UNCHANGED <<recvClosed, panicked>>
    /\ cl_pc' = [cl_pc EXCEPT ![k] = "ret"]
    /\ cl_should' = [cl_should EXCEPT ![k] = FALSE]
    /\ ret' = Ret("Close", "nil", 0)
    /\ UNCHANGED <<muxVars, made, conns, recvChan, closedChan, closeOnce, wg,
                   tpc, tp, tfirst, tpkt, tch, nread, connClosed, cl_p,
                   lastRecv>>

\* ------------------------------------------------- ReadFrom, WriteTo
\* ReadFrom that gives up as soon as the closing signal has fired
ReadFromOnSignal(p, short) ==
    /\ p \in made
    /\ IF recvChan[p] # <<>> /\ ~isClosed(p)
       THEN LET rec == Head(recvChan[p]) IN
            /\ recvChan' = [recvChan EXCEPT ![p] = Tail(@)]
            /\ lastRecv' = [lastRecv EXCEPT ![rec.conn] = rec.idx]
            /\ ret' = Ret("ReadFrom",
                          IF rec.err THEN "readErr"
                          ELSE IF short THEN "ErrShortBuffer" ELSE "nil",
                          rec.conn)
       ELSE /\ isClosed(p)
            /\ ret' = Ret("ReadFrom", "ErrClosedPipe", 0)
            /\ UNCHANGED <<recvChan, lastRecv>>
    /\ UNCHANGED <<muxVars, made, conns, recvClosed, closedChan, closeOnce, wg,
                   tpc, tp, tfirst, tpkt, tch, nread, connClosed, cl_pc, cl_p,
                   cl_should, panicked>>

\* ReadFrom: takes the oldest record; short is cap(b) < len(pkt.Data)
ReadFrom(p, short) ==
    /\ p \in made
    /\ IF recvChan[p] # <<>>
       THEN LET rec == Head(recvChan[p]) IN
            /\ recvChan' = [recvChan EXCEPT ![p] = Tail(@)]
            /\ lastRecv' = [lastRecv EXCEPT ![rec.conn] = rec.idx]
            /\ ret' = Ret("ReadFrom",
                          IF rec.err THEN "readErr"
                          ELSE IF short THEN "ErrShortBuffer" ELSE "nil",
                          rec.conn)
       ELSE /\ recvClosed[p] > 0
            /\ ret' = Ret("ReadFrom", "ErrClosedPipe", 0)
            /\ UNCHANGED <<recvChan, lastRecv>>
    /\ UNCHANGED <<muxVars, made, conns, recvClosed, closedChan, closeOnce, wg,
                   tpc, tp, tfirst, tpkt, tch, nread, connClosed, cl_pc, cl_p,
                   cl_should, panicked>>

\* WriteTo that dials the peer when no connection is registered under the
\* address, registers the new connection and starts reading from it
WriteToDials(p, a) ==
    /\ p \in made
    /\ IF conns[p][a] = NoConn
          /\ \E c \in Conns : AddrOf(c) = a /\ tp[c] = NoPacketConn
                                /\ connClosed[c] = 0
       THEN LET c == CHOOSE c \in Conns : AddrOf(c) = a /\ tp[c] = NoPacketConn
                                             /\ connClosed[c] = 0
            IN  /\ conns' = [conns EXCEPT ![p][a] = c]
                /\ tpc' = [tpc EXCEPT ![c] = "read"]
                /\ tp' = [tp EXCEPT ![c] = p]
                /\ ret' = Ret("WriteTo", "nil", c)
       ELSE /\ ret' = Ret("WriteTo",
                          IF conns[p][a] = NoConn THEN "ErrClosedPipe"
                          ELSE IF connClosed[conns[p][a]] > 0 THEN "writeErr"
                          ELSE "nil",
                          conns[p][a])
            /\ UNCHANGED <<conns, tpc, tp>>
    /\ UNCHANGED <<muxVars, made, recvChan, recvClosed, closedChan,
                   closeOnce, wg, tfirst, tpkt, tch, nread, connClosed,
                   cl_pc, cl_p, cl_should, lastRecv, panicked>>

\* WriteTo: looks the peer address up in t.conns and writes one frame to it;
\* the value returned here is the connection the frame was written to
WriteTo(p, a) ==
    /\ p \in made
    /\ ret' = Ret("WriteTo",
                  IF conns[p][a] = NoConn THEN "ErrClosedPipe"
                  ELSE IF connClosed[conns[p][a]] > 0 THEN "writeErr"
                  ELSE "nil",
                  conns[p][a])
    /\ UNCHANGED <<muxVars, made, conns, recvChan, recvClosed, closedChan,
                   closeOnce, wg, tpc, tp, tfirst, tpkt, tch, nread, connClosed,
                   cl_pc, cl_p, cl_should, lastRecv, panicked>>

\* --------------------------------------------------------------- router
\* NewTCPMuxDefault: empty tables, the accept loop started
InitMux ==
    /\ raddr \in {f \in [Conns -> Addrs] : f[1] = 1}
    /\ m_closed = FALSE
    /\ connsIPv4 = [u \in Ufrags |-> NoPacketConn]
    /\ connsIPv6 = [u \in Ufrags |-> NoPacketConn]
    /\ m_mu = NoThread
    /\ m_wg = 1
    /\ lclosed = FALSE
    /\ apc = "accept"
    /\ hpc = [c \in Conns |-> "idle"]
    /\ hufrag = [c \in Conns |-> 0]
    /\ r_pc = [x \in Watchers |-> "idle"]
    /\ r_ufrag = [x \in Watchers |-> 0]
    /\ mpc = "idle"
    /\ mtodo = {}

\* the variables of the tcpPacketConns but ret
aggState == <<made, conns, recvChan, recvClosed, closedChan, closeOnce, wg,
              tpc, tp, tfirst, tpkt, tch, nread, connClosed, cl_pc, cl_p,
              cl_should, lastRecv, panicked>>

\* tcpPacketConns constructed, plus one for each handleConn that may yet
\* construct one: a peer connects, and the consumer asks for a new
\* tcpPacketConn, only while this stays within MaxPacketConns
Reserved == Cardinality(made) + Cardinality({c \in Conns : hpc[c] \in {"read", "lock"}})

\* getConn
getConn(u, isIPv6) == IF isIPv6 THEN connsIPv6[u] ELSE connsIPv4[u]

\* the tcpPacketConn that createConn constructs next
FreshPacketConn == CHOOSE p \in PacketConns \ made :
                       \A q \in PacketConns \ made : p <= q

\* createConn: constructs a tcpPacketConn, registers it under the ufrag in
\* the table of its family and starts the goroutine that waits for its
\* closing signal. It constrains made, connsIPv4, connsIPv6, r_pc, r_ufrag.
createConn(u, isIPv6) ==
    /\ made # PacketConns
    /\ made' = made \cup {FreshPacketConn}
    /\ IF isIPv6
       THEN /\ connsIPv6' = [connsIPv6 EXCEPT ![u] = FreshPacketConn]
            /\ UNCHANGED connsIPv4
       ELSE /\ connsIPv4' = [connsIPv4 EXCEPT ![u] = FreshPacketConn]
            /\ UNCHANGED connsIPv6
    /\ r_pc' = [r_pc EXCEPT ![Watcher(FreshPacketConn)] = "wait"]
    /\ r_ufrag' = [r_ufrag EXCEPT ![Watcher(FreshPacketConn)] = u]

\* GetConnByUfrag that does not look at m.closed
GetConnByUfragIgnoresClosed(u, isIPv6) ==
    /\ m_mu = NoThread
    /\ IF getConn(u, isIPv6) # NoPacketConn
       THEN /\ ret' = Ret("GetConnByUfrag", "nil", getConn(u, isIPv6))
            /\ UNCHANGED <<made, connsIPv4, connsIPv6, r_pc, r_ufrag, m_wg>>
       ELSE /\ Reserved < MaxPacketConns
            /\ createConn(u, isIPv6)
            /\ m_wg' = m_wg + 1
            /\ ret' = Ret("GetConnByUfrag", "nil", FreshPacketConn)
    /\ UNCHANGED <<streamVars, raddr, m_closed, m_mu, lclosed, apc, hpc, hufrag, mpc, mtodo,
                   conns, recvChan, recvClosed, closedChan, closeOnce, wg, tpc,
                   tp, tfirst, tpkt, tch, nread, connClosed, cl_pc, cl_p,
                   cl_should, lastRecv, panicked>>

\* GetConnByUfrag, all of it under m.mu
GetConnByUfrag(u, isIPv6) ==
    /\ m_mu = NoThread
    /\ IF m_closed
       THEN /\ ret' = Ret("GetConnByUfrag", "ErrClosedPipe", NoPacketConn)
            /\ UNCHANGED <<made, connsIPv4, connsIPv6, r_pc, r_ufrag, m_wg>>
       ELSE IF getConn(u, isIPv6) # NoPacketConn
       THEN /\ ret' = Ret("GetConnByUfrag", "nil", getConn(u, isIPv6))
            /\ UNCHANGED <<made, connsIPv4, connsIPv6, r_pc, r_ufrag, m_wg>>
       ELSE /\ Reserved < MaxPacketConns
            /\ createConn(u, isIPv6)
            /\ m_wg' = m_wg + 1
            /\ ret' = Ret("GetConnByUfrag", "nil", FreshPacketConn)
    /\ UNCHANGED <<streamVars, raddr, m_closed, m_mu, lclosed, apc, hpc, hufrag, mpc, mtodo,
                   conns, recvChan, recvClosed, closedChan, closeOnce, wg, tpc,
                   tp, tfirst, tpkt, tch, nread, connClosed, cl_pc, cl_p,
                   cl_should, lastRecv, panicked>>

\* start: Listener.Accept returns a connection and handleConn is started
Accept(c) ==
    /\ apc = "accept"
    /\ ~lclosed
    /\ hpc[c] = "idle"
    /\ tp[c] = NoPacketConn
    /\ connClosed[c] = 0
    /\ Reserved < MaxPacketConns
    /\ hpc' = [hpc EXCEPT ![c] = "read"]
    /\ m_wg' = m_wg + 1
    /\ ret' = NoRet
    /\ UNCHANGED <<aggState, streamVars, raddr, m_closed, connsIPv4, connsIPv6, m_mu,
                   lclosed, apc, hufrag, r_pc, r_ufrag, mpc, mtodo>>

\* start: Listener.Accept fails while the listener is open; the loop ends
AcceptFault ==
    /\ apc = "accept"
    /\ ~lclosed
    /\ apc' = "done"
    /\ m_wg' = m_wg - 1
    /\ ret' = NoRet
    /\ UNCHANGED <<aggState, streamVars, raddr, m_closed, connsIPv4, connsIPv6, m_mu,
                   lclosed, hpc, hufrag, r_pc, r_ufrag, mpc, mtodo>>

\* start: Listener.Accept fails because the listener is closed
AcceptClosed ==
    /\ apc = "accept"
    /\ lclosed
    /\ apc' = "done"
    /\ m_wg' = m_wg - 1
    /\ ret' = NoRet
    /\ UNCHANGED <<aggState, streamVars, raddr, m_closed, connsIPv4, connsIPv6, m_mu,
                   lclosed, hpc, hufrag, r_pc, r_ufrag, mpc, mtodo>>

\* handleConn: readStreamingPacket fails on the first frame; handleConn
\* returns and leaves the connection open
HandleConnReadErr(c) ==
    /\ hpc[c] = "read"
    /\ hpc' = [hpc EXCEPT ![c] = "done"]
    /\ m_wg' = m_wg - 1
    /\ ret' = NoRet
    /\ UNCHANGED <<aggState, streamVars, raddr, m_closed, connsIPv4, connsIPv6, m_mu,
                   lclosed, apc, hufrag, r_pc, r_ufrag, mpc, mtodo>>

\* the first frame of an accepted connection, as handleConn looks at it:
\* whether msg.Decode succeeds, msg.Type.Method, msg.Type.Class, whether
\* msg.Get(stun.AttrUsername) succeeds, and the value of the attribute
Colon == 0
Usernames ==
    {<<u>> : u \in Ufrags} \cup {<<u, Colon, v>> : u \in Ufrags, v \in Ufrags}
Undecodable ==
    [decodes |-> FALSE, method |-> "none", class |-> "none",
     hasUsername |-> FALSE, username |-> <<>>]
Messages ==
    {Undecodable} \cup
    [decodes : {TRUE}, method : {"Binding", "Allocate"},
     class : {"Request", "Indication"}, hasUsername : {FALSE},
     username : {<<>>}] \cup
    [decodes : {TRUE}, method : {"Binding", "Allocate"},
     class : {"Request", "Indication"}, hasUsername : {TRUE},
     username : Usernames]

\* strings.Split(string(attr), ":")[0]: the characters before the first
\* colon, all of them if there is none; a ufrag is one character here
RECURSIVE BeforeColon(_)
BeforeColon(name) ==
    IF name = <<>> \/ Head(name) = Colon THEN <<>>
    ELSE <<Head(name)>> \o BeforeColon(Tail(name))
UfragOf(name) == BeforeColon(name)[1]

\* the tests of handleConn that end in closeAndLogError(conn) and return
Rejects(msg) ==
    \/ ~msg.decodes
    \/ msg.method # "Binding"
    \/ ~msg.hasUsername

\* handleConn: the first frame does not decode as a STUN message, is not of
\* method Binding or has no USERNAME; the connection is closed
HandleConnReject(c, msg) ==
    /\ hpc[c] = "read"
    /\ Rejects(msg)
    /\ hpc' = [hpc EXCEPT ![c] = "done"]
    /\ connClosed' = [connClosed EXCEPT ![c] = @ + 1]
    /\ m_wg' = m_wg - 1
    /\ ret' = NoRet
    /\ UNCHANGED <<made, conns, recvChan, recvClosed, closedChan, closeOnce, wg,
                   tpc, tp, tfirst, tpkt, tch, nread, cl_pc, cl_p, cl_should,
                   lastRecv, panicked>>
    /\ UNCHANGED <<streamVars, raddr, m_closed, connsIPv4, connsIPv6, m_mu, lclosed, apc,
                   hufrag, r_pc, r_ufrag, mpc, mtodo>>

\* handleConn: the first frame is a message of method Binding with a
\* USERNAME; the ufrag is taken from it
HandleConnStun(c, msg) ==
    /\ hpc[c] = "read"
    /\ ~Rejects(msg)
    /\ hpc' = [hpc EXCEPT ![c] = "lock"]
    /\ hufrag' = [hufrag EXCEPT ![c] = UfragOf(msg.username)]
    /\ ret' = NoRet
    /\ UNCHANGED <<aggState, streamVars, raddr, m_closed, connsIPv4, connsIPv6, m_mu, m_wg,
                   lclosed, apc, r_pc, r_ufrag, mpc, mtodo>>

\* handleConn from m.mu.Lock() to its return: the tcpPacketConn of the ufrag
\* and family is looked up or created, and the connection added to it with
\* the first frame; splitOk is whether net.SplitHostPort succeeds
HandleConnRoute(c, splitOk) ==
    /\ hpc[c] = "lock"
    /\ m_mu = NoThread
    /\ hpc' = [hpc EXCEPT ![c] = "done"]
    /\ IF ~splitOk
       THEN /\ connClosed' = [connClosed EXCEPT ![c] = @ + 1]
            /\ m_wg' = m_wg - 1
            /\ ret' = NoRet
            /\ UNCHANGED <<made, connsIPv4, connsIPv6, r_pc, r_ufrag, conns, wg,
                           tpc, tp, tfirst>>
       ELSE LET isIPv6 == IsIPv6(AddrOf(c))
                found == getConn(hufrag[c], isIPv6)
            IN  /\ IF found # NoPacketConn
                   THEN /\ AddConnBody(found, c, TRUE)
                        /\ m_wg' = m_wg - 1
                        /\ UNCHANGED <<made, connsIPv4, connsIPv6, r_pc,
                                       r_ufrag>>
                   ELSE /\ createConn(hufrag[c], isIPv6)
                        /\ AddConnBody(FreshPacketConn, c, TRUE)
                        /\ m_wg' = m_wg
                /\ connClosed' = [connClosed EXCEPT ![c] =
                                     IF ret'.err = "nil" THEN @ ELSE @ + 1]
    /\ UNCHANGED <<streamVars, raddr, m_closed, m_mu, lclosed, apc, hufrag, mpc, mtodo,
                   recvChan, recvClosed, closedChan, closeOnce, tpkt, tch,
                   nread, cl_pc, cl_p, cl_should, lastRecv, panicked>>

\* the goroutine of createConn: <-conn.CloseChannel() returns
WatcherWake(p) ==
    /\ r_pc[Watcher(p)] = "wait"
    /\ isClosed(p)
    /\ r_pc' = [r_pc EXCEPT ![Watcher(p)] = "lock"]
    /\ ret' = NoRet
    /\ UNCHANGED <<aggState, streamVars, raddr, m_closed, connsIPv4, connsIPv6, m_mu, m_wg,
                   lclosed, apc, hpc, hufrag, r_ufrag, mpc, mtodo>>

\* RemoveConnByUfrag from the look-up in connsIPv6 on: either it starts to
\* close the tcpPacketConn found there, or it unlocks m.mu and returns, and
\* the watcher ends (m.wg.Done). It constrains r_pc, m_mu, m_wg and what
\* CloseLockBody constrains.
RemoveLookIPv6(x) ==
    IF connsIPv6[r_ufrag[x]] # NoPacketConn
    THEN /\ CloseLockBody(x, connsIPv6[r_ufrag[x]])
         /\ r_pc' = [r_pc EXCEPT ![x] = "close6"]
         /\ m_mu' = x
         /\ UNCHANGED m_wg
    ELSE /\ r_pc' = [r_pc EXCEPT ![x] = "done"]
         /\ m_mu' = NoThread
         /\ m_wg' = m_wg - 1
         /\ cl_pc' = [cl_pc EXCEPT ![x] = "idle"]
         /\ UNCHANGED <<closedChan, closeOnce, panicked, connClosed, conns,
                        cl_p, cl_should>>

\* RemoveConnByUfrag takes m.mu and looks the ufrag up in connsIPv4
RemoveLock(x) ==
    /\ r_pc[x] = "lock"
    /\ m_mu = NoThread
    /\ IF connsIPv4[r_ufrag[x]] # NoPacketConn
       THEN /\ CloseLockBody(x, connsIPv4[r_ufrag[x]])
            /\ r_pc' = [r_pc EXCEPT ![x] = "close4"]
            /\ m_mu' = x
            /\ UNCHANGED m_wg
       ELSE RemoveLookIPv6(x)
    /\ ret' = NoRet
    /\ UNCHANGED <<streamVars, raddr, made, m_closed, connsIPv4, connsIPv6, lclosed, apc,
                   hpc, hufrag, r_ufrag, mpc, mtodo, recvChan, recvClosed, wg,
                   tpc, tp, tfirst, tpkt, tch, nread, lastRecv>>

\* RemoveConnByUfrag: Close of the IPv4 tcpPacketConn has returned; it is
\* deleted from connsIPv4 and connsIPv6 is looked up
RemoveClosedIPv4(x) ==
    /\ r_pc[x] = "close4"
    /\ cl_pc[x] = "ret"
    /\ connsIPv4' = [connsIPv4 EXCEPT ![r_ufrag[x]] = NoPacketConn]
    /\ RemoveLookIPv6(x)
    /\ ret' = NoRet
    /\ UNCHANGED <<streamVars, raddr, made, m_closed, connsIPv6, lclosed, apc, hpc, hufrag,
                   r_ufrag, mpc, mtodo, recvChan, recvClosed, wg, tpc, tp,
                   tfirst, tpkt, tch, nread, lastRecv>>

\* RemoveConnByUfrag: Close of the IPv6 tcpPacketConn has returned; it is
\* deleted from connsIPv6, m.mu is unlocked, and a watcher ends
RemoveClosedIPv6(x) ==
    /\ r_pc[x] = "close6"
    /\ cl_pc[x] = "ret"
    /\ connsIPv6' = [connsIPv6 EXCEPT ![r_ufrag[x]] = NoPacketConn]
    /\ r_pc' = [r_pc EXCEPT ![x] = "done"]
    /\ cl_pc' = [cl_pc EXCEPT ![x] = "idle"]
    /\ m_mu' = NoThread
    /\ m_wg' = m_wg - 1
    /\ ret' = NoRet
    /\ UNCHANGED <<streamVars, raddr, made, m_closed, connsIPv4, lclosed, apc, hpc, hufrag,
                   r_ufrag, mpc, mtodo, conns, recvChan, recvClosed, closedChan,
                   closeOnce, wg, tpc, tp, tfirst, tpkt, tch, nread, connClosed,
                   cl_p, cl_should, lastRecv, panicked>>

\* the tcpPacketConns registered in a table
InTable(table) == {table[u] : u \in Ufrags} \ {NoPacketConn}

\* TCPMuxDefault.Close without the loop over connsIPv6
MuxCloseSkipsIPv6 ==
    /\ mpc = "idle"
    /\ m_mu = NoThread
    /\ m_mu' = MuxCloser
    /\ m_closed' = TRUE
    /\ mtodo' = InTable(connsIPv4)
    /\ mpc' = "loop"
    /\ ret' = NoRet
    /\ UNCHANGED <<aggState, streamVars, raddr, connsIPv4, connsIPv6, m_wg, lclosed, apc,
                   hpc, hufrag, r_pc, r_ufrag>>

\* TCPMuxDefault.Close takes m.mu and sets m.closed
MuxCloseLock ==
    /\ mpc = "idle"
    /\ m_mu = NoThread
    /\ m_mu' = MuxCloser
    /\ m_closed' = TRUE
    /\ mtodo' = InTable(connsIPv4) \cup InTable(connsIPv6)
    /\ mpc' = "loop"
    /\ ret' = NoRet
    /\ UNCHANGED <<aggState, streamVars, raddr, connsIPv4, connsIPv6, m_wg, lclosed, apc,
                   hpc, hufrag, r_pc, r_ufrag>>

\* TCPMuxDefault.Close: the loops over connsIPv4, then connsIPv6, call Close
\* on the next tcpPacketConn once the previous Close has returned
MuxCloseNext(p) ==
    /\ mpc = "loop"
    /\ cl_pc[MuxCloser] \in {"idle", "ret"}
    /\ p \in mtodo
    /\ p \in InTable(connsIPv4) \/ mtodo \cap InTable(connsIPv4) = {}
    /\ mtodo' = mtodo \ {p}
    /\ CloseLockBody(MuxCloser, p)
    /\ ret' = NoRet
    /\ UNCHANGED <<streamVars, raddr, made, m_closed, connsIPv4, connsIPv6, m_mu, m_wg,
                   lclosed, apc, hpc, hufrag, r_pc, r_ufrag, mpc, recvChan,
                   recvClosed, wg, tpc, tp, tfirst, tpkt, tch, nread, lastRecv>>

\* TCPMuxDefault.Close: both loops are over; the tables are replaced by empty
\* ones, the listener is closed and m.mu unlocked
MuxCloseUnlock ==
    /\ mpc = "loop"
    /\ cl_pc[MuxCloser] \in {"idle", "ret"}
    /\ mtodo = {}
    /\ connsIPv4' = [u \in Ufrags |-> NoPacketConn]
    /\ connsIPv6' = [u \in Ufrags |-> NoPacketConn]
    /\ lclosed' = TRUE
    /\ m_mu' = NoThread
    /\ cl_pc' = [cl_pc EXCEPT ![MuxCloser] = "idle"]
    /\ mpc' = "wait"
    /\ ret' = NoRet
    /\ UNCHANGED <<streamVars, raddr, made, m_closed, m_wg, apc, hpc, hufrag, r_pc, r_ufrag,
                   mtodo, conns, recvChan, recvClosed, closedChan, closeOnce,
                   wg, tpc, tp, tfirst, tpkt, tch, nread, connClosed, cl_p,
                   cl_should, lastRecv, panicked>>

\* TCPMuxDefault.Close: m.wg.Wait() returns, and Close returns the error of
\* Listener.Close
MuxCloseWait ==
    /\ mpc = "wait"
    /\ m_wg = 0
    /\ mpc' = "ret"
    /\ ret' = Ret("MuxClose", "nil", 0)
    /\ UNCHANGED <<aggState, streamVars, raddr, m_closed, connsIPv4, connsIPv6, m_mu, m_wg,
                   lclosed, apc, hpc, hufrag, r_pc, r_ufrag, mtodo>>

\* ------------------------------------------------------------- framing
\* the values of a byte
ByteBase == 256
\* const streamingPacketHeaderLen
streamingPacketHeaderLen == 2

\* payloads a writer may send: empty, one byte, two that read as headers,
\* and a long one
LongPayload == [i \in 1 .. LongLen |-> i % ByteBase]
Payloads == {<<>>, <<255>>, <<0, 1>>, <<1, 0>>, LongPayload}

\* binary.BigEndian.PutUint16(b, uint16(n))
PutUint16(n) == <<((n % (ByteBase * ByteBase)) \div ByteBase), n % ByteBase>>
\* binary.BigEndian.Uint16(header)
Uint16(header) == header[1] * ByteBase + header[2]

\* writeStreamingPacket: the bytes handed to conn.Write
FrameBytes(buf) == PutUint16(Len(buf)) \o buf

\* the locals of readStreamingPacket when it is entered; split records
\* whether a conn.Read returned fewer bytes than the slice it was given
RdEntry == [pc |-> "header", header |-> <<>>, length |-> 0, buf |-> <<>>,
            split |-> FALSE]

\* no stream is followed
InitNoStream ==
    /\ payloads = <<>>
    /\ bufcap = 0
    /\ nsent = 0
    /\ wire = <<>>
    /\ rd = RdEntry
    /\ got = <<>>

\* a writer with up to MaxStreamFrames payloads to send, and a reader whose
\* buffer is large enough for all of them or too small for the long one
InitStream ==
    /\ payloads \in UNION {[1 .. n -> Payloads] : n \in 1 .. MaxStreamFrames}
    /\ bufcap \in {streamingPacketHeaderLen, LongLen}
    /\ nsent = 0
    /\ wire = <<>>
    /\ rd = RdEntry
    /\ got = <<>>

\* the first k elements of a sequence, and the rest
Take(q, k) == SubSeq(q, 1, k)
Drop(q, k) == SubSeq(q, k + 1, Len(q))

\* writeStreamingPacket: one conn.Write of the header and the payload
WriteFrame ==
    /\ nsent < Len(payloads)
    /\ wire' = wire \o FrameBytes(payloads[nsent + 1])
    /\ nsent' = nsent + 1
    /\ UNCHANGED <<payloads, bufcap, rd, got>>
    /\ UNCHANGED <<aggVars, raddr, m_closed, connsIPv4, connsIPv6, m_mu, m_wg,
                   lclosed, apc, hpc, hufrag, r_pc, r_ufrag, mpc, mtodo>>

\* what readStreamingPacket returns: n, buf[:n] as its caller slices it, err
Returned(n, data, err, split) ==
    [n |-> n, data |-> data, err |-> err, split |-> split]

\* readStreamingPacket, the loop over the header: conn.Read returns k bytes;
\* with the header complete the length is decoded and checked against
\* cap(buf), and an empty payload is returned at once
ReadHeader(k) ==
    /\ rd.pc = "header"
    /\ k \in 1 .. streamingPacketHeaderLen - Len(rd.header)
    /\ k <= Len(wire)
    /\ wire' = Drop(wire, k)
    /\ LET header == rd.header \o Take(wire, k)
           split == rd.split \/ k < streamingPacketHeaderLen - Len(rd.header)
           length == Uint16(header)
       IN  IF Len(header) < streamingPacketHeaderLen
           THEN /\ rd' = [rd EXCEPT !.header = header, !.split = split]
                /\ UNCHANGED got
           ELSE IF length > bufcap
           THEN /\ got' = Append(got, Returned(length, <<>>, "ErrShortBuffer", split))
                /\ rd' = [RdEntry EXCEPT !.pc = "failed"]
           ELSE IF length = 0
           THEN /\ got' = Append(got, Returned(0, <<>>, "nil", split))
                /\ rd' = RdEntry
           ELSE /\ rd' = [rd EXCEPT !.pc = "body", !.header = header,
                                    !.length = length, !.split = split]
                /\ UNCHANGED got
    /\ UNCHANGED <<payloads, bufcap, nsent>>
    /\ UNCHANGED <<aggVars, raddr, m_closed, connsIPv4, connsIPv6, m_mu, m_wg,
                   lclosed, apc, hpc, hufrag, r_pc, r_ufrag, mpc, mtodo>>

\* readStreamingPacket that takes the first conn.Read of the payload for the
\* whole payload
ReadBodyNoLoop(k) ==
    /\ rd.pc = "body"
    /\ k \in 1 .. rd.length - Len(rd.buf)
    /\ k <= Len(wire)
    /\ wire' = Drop(wire, k)
    /\ got' = Append(got, Returned(k, Take(wire, k), "nil",
                                   rd.split \/ k < rd.length - Len(rd.buf)))
    /\ rd' = RdEntry
    /\ UNCHANGED <<payloads, bufcap, nsent>>
    /\ UNCHANGED <<aggVars, raddr, m_closed, connsIPv4, connsIPv6, m_mu, m_wg,
                   lclosed, apc, hpc, hufrag, r_pc, r_ufrag, mpc, mtodo>>

\* readStreamingPacket, the loop over the payload: conn.Read returns k bytes
\* into buf[bytesRead:length]; with bytesRead = length it returns
ReadBody(k) ==
    /\ rd.pc = "body"
    /\ k \in 1 .. rd.length - Len(rd.buf)
    /\ k <= Len(wire)
    /\ wire' = Drop(wire, k)
    /\ LET buf == rd.buf \o Take(wire, k)
           split == rd.split \/ k < rd.length - Len(rd.buf)
       IN  IF Len(buf) < rd.length
           THEN /\ rd' = [rd EXCEPT !.buf = buf, !.split = split]
                /\ UNCHANGED got
           ELSE /\ got' = Append(got, Returned(Len(buf), buf, "nil", split))
                /\ rd' = RdEntry
    /\ UNCHANGED <<payloads, bufcap, nsent>>
    /\ UNCHANGED <<aggVars, raddr, m_closed, connsIPv4, connsIPv6, m_mu, m_wg,
                   lclosed, apc, hpc, hufrag, r_pc, r_ufrag, mpc, mtodo>>

\* readStreamingPacket: conn.Read fails once the writer has closed the
\* stream and every byte written was read; (0, err) is returned
ReadEOF ==
    /\ rd.pc \in {"header", "body"}
    /\ nsent = Len(payloads)
    /\ wire = <<>>
    /\ got' = Append(got, Returned(0, <<>>, "EOF", rd.split))
    /\ rd' = [RdEntry EXCEPT !.pc = "failed"]
    /\ UNCHANGED <<payloads, bufcap, nsent, wire>>
    /\ UNCHANGED <<aggVars, raddr, m_closed, connsIPv4, connsIPv6, m_mu, m_wg,
                   lclosed, apc, hpc, hufrag, r_pc, r_ufrag, mpc, mtodo>>


\* ---------------------------------------------------------------- specs
\* One tcpPacketConn used on its own: its caller adds connections, reads,
\* writes and closes; the router is never started.
Init ==
    /\ InitAgg
    /\ InitMux
    /\ InitNoStream
    /\ made = {1}

TaskStep(c) ==
    \/ FirstSend(c)
    \/ ReadFrame(c)
    \/ ReadFault(c)
    \/ ReadClosed(c)
    \/ HandleRecvLock(c)
    \/ HandleRecvSend(c)
    \/ HandleRecvClosed(c)
    \/ RemoveConn(c)

Next ==
    \/ \E c \in Conns, first \in BOOLEAN : AddConn(1, c, first)
    \/ \E c \in Conns : TaskStep(c)
    \/ \E k \in ExtClosers : CloseLock(k, 1)
    \/ \E k \in ExtClosers : CloseWait(k)
    \/ \E short \in BOOLEAN : ReadFrom(1, short)
    \/ \E a \in Addrs : WriteTo(1, a)

Spec == Init /\ [][Next]_vars

\* the goroutine of AddConn when the peer sends nothing after its first frame
MuxTaskStep(c) ==
    \/ FirstSend(c)
    \/ ReadFault(c)
    \/ ReadClosed(c)
    \/ HandleRecvLock(c)
    \/ HandleRecvSend(c)
    \/ HandleRecvClosed(c)
    \/ RemoveConn(c)

\* The router after NewTCPMuxDefault: peers connect and send, the consumer
\* calls GetConnByUfrag, RemoveConnByUfrag and Close on the router, and
\* ReadFrom and Close on the tcpPacketConns it got.
MuxInit ==
    /\ InitAgg
    /\ InitMux
    /\ InitNoStream
    /\ made = {}

MuxNext ==
    \/ \E c \in Conns : Accept(c)
    \/ AcceptFault
    \/ AcceptClosed
    \/ \E c \in Conns : HandleConnReadErr(c)
    \/ \E c \in Conns, msg \in Messages : HandleConnReject(c, msg)
    \/ \E c \in Conns, msg \in Messages : HandleConnStun(c, msg)
    \/ \E c \in Conns, splitOk \in BOOLEAN : HandleConnRoute(c, splitOk)
    \/ \E u \in Ufrags, isIPv6 \in BOOLEAN : GetConnByUfrag(u, isIPv6)
    \/ \E p \in PacketConns : WatcherWake(p)
    \/ \E x \in Watchers : RemoveLock(x)
    \/ \E x \in Watchers : RemoveClosedIPv4(x)
    \/ \E x \in Watchers : RemoveClosedIPv6(x)
    \/ MuxCloseLock
    \/ \E p \in PacketConns : MuxCloseNext(p)
    \/ MuxCloseUnlock
    \/ MuxCloseWait
    \/ \E c \in Conns : MuxTaskStep(c)
    \/ \E k \in Closers : CloseWait(k)
    \/ \E p \in PacketConns : ReadFrom(p, FALSE)

MuxSpec == MuxInit /\ [][MuxNext]_vars


\* The scheduler runs every goroutine that can take a step. Nothing obliges
\* a peer to send or to fail (ReadFrame, ReadFault), nor the consumer to
\* call AddConn, Close, ReadFrom or WriteTo.
TaskFairness ==
    \A c \in Conns :
        /\ WF_vars(FirstSend(c))
        /\ WF_vars(ReadClosed(c))
        /\ WF_vars(HandleRecvLock(c))
        /\ WF_vars(HandleRecvSend(c))
        /\ WF_vars(HandleRecvClosed(c))
        /\ WF_vars(RemoveConn(c))

CloseFairness ==
    \A k \in Closers : WF_vars(CloseWait(k))

FairSpec == Spec /\ TaskFairness /\ CloseFairness

\* Every goroutine of the router that can take a step is run, and a
\* goroutine waiting for m.mu gets it if it is free again and again. Nothing
\* obliges a peer to connect, to send or to fail, nor the consumer to call.
MuxFairness ==
    /\ WF_vars(AcceptClosed)
    /\ \A c \in Conns : SF_vars(\E splitOk \in BOOLEAN : HandleConnRoute(c, splitOk))
    /\ \A p \in PacketConns : WF_vars(WatcherWake(p))
    /\ \A x \in Watchers :
           /\ SF_vars(RemoveLock(x))
           /\ WF_vars(RemoveClosedIPv4(x))
           /\ WF_vars(RemoveClosedIPv6(x))
    /\ \A p \in PacketConns : WF_vars(MuxCloseNext(p))
    /\ WF_vars(MuxCloseUnlock)
    /\ WF_vars(MuxCloseWait)

MuxFairSpec == MuxSpec /\ MuxFairness /\ TaskFairness /\ CloseFairness

\* The router while it stays open: peers connect and send, and the consumer
\* calls GetConnByUfrag on the router and Close on the tcpPacketConns it
\* got, and reads from them. It never calls TCPMuxDefault.Close, and Accept
\* does not fail.
WatchNext ==
    \/ \E c \in Conns : Accept(c)
    \/ \E c \in Conns : HandleConnReadErr(c)
    \/ \E c \in Conns, msg \in Messages : HandleConnReject(c, msg)
    \/ \E c \in Conns, msg \in Messages : HandleConnStun(c, msg)
    \/ \E c \in Conns, splitOk \in BOOLEAN : HandleConnRoute(c, splitOk)
    \/ \E u \in Ufrags, isIPv6 \in BOOLEAN : GetConnByUfrag(u, isIPv6)
    \/ \E k \in ExtClosers, p \in PacketConns : CloseLock(k, p)
    \/ \E p \in PacketConns : WatcherWake(p)
    \/ \E x \in Watchers : RemoveLock(x)
    \/ \E x \in Watchers : RemoveClosedIPv4(x)
    \/ \E x \in Watchers : RemoveClosedIPv6(x)
    \/ \E c \in Conns : MuxTaskStep(c)
    \/ \E k \in Closers : CloseWait(k)
    \/ \E p \in PacketConns : ReadFrom(p, FALSE)

WatchSpec == MuxInit /\ [][WatchNext]_vars

\* One stream between a writer that calls writeStreamingPacket for each of
\* its payloads and a reader that calls readStreamingPacket again and again;
\* every conn.Read returns any number of the bytes available, at least one.
StreamInit ==
    /\ InitAgg
    /\ InitMux
    /\ raddr = [c \in Conns |-> 1]
    /\ made = {}
    /\ InitStream

StreamNext ==
    \/ WriteFrame
    \/ \E k \in 1 .. streamingPacketHeaderLen : ReadHeader(k)
    \/ \E k \in 1 .. LongLen : ReadBody(k)
    \/ ReadEOF

StreamSpec == StreamInit /\ [][StreamNext]_vars

\* ---------------------------------------------------------------- claims
\* the records of connection c in a queue, oldest first
RecordsOf(q, c) == SelectSeq(q, LAMBDA r : r.conn = c)

\* the queue holds the records of each connection in increasing order of
\* their index, all of them later than the last one ReadFrom returned
QueueOrdered ==
    \A p \in PacketConns : \A c \in Conns :
        LET q == RecordsOf(recvChan[p], c) IN
        /\ \A i \in 1 .. Len(q) : q[i].idx > lastRecv[c]
        /\ \A i \in 1 .. Len(q) : \A j \in 1 .. Len(q) :
               i < j => q[i].idx < q[j].idx

\* ReadFrom returns the records of a connection in increasing order of
\* their index, and the first one it returns is firstPacketData if any
ReceivedInOrder ==
    \A c \in Conns :
        lastRecv'[c] # lastRecv[c] =>
            /\ lastRecv'[c] > lastRecv[c]
            /\ (tfirst[c] /\ lastRecv[c] = -1) => lastRecv'[c] = 0

C2_ClosedAfterTasks ==
    /\ panicked # "send on closed channel"
    /\ \A p \in PacketConns :
           recvClosed[p] > 0 =>
               /\ wg[p] = 0
               /\ \A c \in Conns : tp[c] = p => tpc[c] = "done"

\* recvChan is closed after a goroutine that sent a first packet and one
\* that did not have both ended
C2_Witness ==
    /\ recvClosed[1] = 1
    /\ \E c \in Conns : \E d \in Conns \ {c} :
           /\ tp[c] = 1 /\ tfirst[c] /\ tpc[c] = "done"
           /\ tp[d] = 1 /\ ~tfirst[d] /\ tpc[d] = "done"

\* C3: a goroutine blocked on a send to a full recvChan is released by the
\* closing signal, so every Close that waits for the goroutines returns.
C3_CloseReturns ==
    \A k \in ExtClosers : (cl_pc[k] = "wait") ~> (cl_pc[k] = "ret")

\* C4: once closedChan is closed, no record is added to recvChan.
C4_NoEnqueueAfterClosed ==
    [][\A p \in PacketConns :
          isClosed(p) => Len(recvChan'[p]) <= Len(recvChan[p])]_vars

\* C8: however many goroutines call Close, closedChan and recvChan are each
\* closed at most once, closedChan exactly once as soon as one Close has
\* passed its critical section, no close panics, and Close returns nil.
C8_CloseIdempotent ==
    /\ panicked # "close of closed channel"
    /\ \A p \in PacketConns : closedChan[p] <= 1 /\ recvClosed[p] <= closedChan[p]
    /\ \A k \in Closers : cl_pc[k] # "idle" => closedChan[cl_p[k]] = 1
    /\ ret.op = "Close" => ret.err = "nil"

\* two calls of Close have overlapped and both returned
C8_Witness ==
    /\ \A k \in ExtClosers : cl_pc[k] = "ret"
    /\ ret.op = "Close"
    /\ closedChan[1] = 1 /\ recvClosed[1] = 1
    /\ \E c \in Conns : tp[c] = 1

\* the variables AddConn may change, except ret
AddConnFrame == <<streamVars, raddr, made, conns, recvChan, recvClosed, closedChan,
                  closeOnce, wg, tpc, tp, tfirst, tpkt, tch, nread, connClosed,
                  cl_pc, cl_p, cl_should, lastRecv, panicked>>

\* C9: AddConn on a tcpPacketConn whose closedChan is closed returns the
\* closed error and changes nothing: no registration, no goroutine, no
\* first packet queued.
C9_AddConnClosed ==
    [][\A p \in PacketConns : \A c \in Conns : \A first \in BOOLEAN :
          (isClosed(p) /\ AddConn(p, c, first)) =>
              /\ ret'.op = "AddConn" /\ ret'.err = "ErrClosedPipe"
              /\ UNCHANGED AddConnFrame]_vars

\* AddConn with a first packet has just failed on a closed tcpPacketConn
C9_Witness ==
    /\ ret = Ret("AddConn", "ErrClosedPipe", 0)
    /\ isClosed(1)
    /\ \E c \in Conns : tpc[c] = "idle" /\ connClosed[c] = 0

\* every open connection whose goroutine runs is the one registered under
\* its peer address
LiveIsRegistered ==
    \A c \in Conns :
        (tp[c] # NoPacketConn /\ tpc[c] \notin {"idle", "done"}
            /\ connClosed[c] = 0) => conns[tp[c]][AddrOf(c)] = c

\* C10: AddConn with a peer address that is registered returns
\* errConnectionAddrAlreadyExist and changes nothing, so the connection
\* registered first stays registered with its goroutine and stays what
\* WriteTo finds under that address.
C10_DuplicateAddr ==
    /\ []LiveIsRegistered
    /\ [][\A p \in PacketConns : \A c \in Conns : \A first \in BOOLEAN :
             (~isClosed(p) /\ conns[p][AddrOf(c)] # NoConn
                 /\ AddConn(p, c, first)) =>
                 /\ ret'.op = "AddConn"
                 /\ ret'.err = "errConnectionAddrAlreadyExist"
                 /\ UNCHANGED AddConnFrame]_vars

\* a second connection from a registered peer address was just refused
\* while the first is open and its goroutine runs
C10_Witness ==
    /\ ret = Ret("AddConn", "errConnectionAddrAlreadyExist", 0)
    /\ raddr[2] = raddr[1]
    /\ \E c \in Conns :
           /\ conns[1][AddrOf(c)] = c
           /\ tpc[c] \notin {"idle", "done"}
           /\ connClosed[c] = 0
           /\ tpc[3 - c] = "idle"

\* every goroutine the router started has ended
MuxTasksEnded ==
    /\ apc = "done"
    /\ \A c \in Conns : hpc[c] \in {"idle", "done"}
    /\ \A x \in Watchers : r_pc[x] \in {"idle", "done"}

\* every accepted connection delivers its first frame or fails: the read of
\* handleConn returns
PeerProgress ==
    \A c \in Conns :
        WF_vars(\/ HandleConnReadErr(c)
                \/ \E msg \in Messages : HandleConnReject(c, msg)
                \/ \E msg \in Messages : HandleConnStun(c, msg))

\* C5: TCPMuxDefault.Close, once called, returns (even granted that no peer
\* stays silent for ever), and when it returns the accept loop, every
\* handleConn and every watcher of createConn has ended.
C5_MuxCloseReturns ==
    PeerProgress =>
        /\ (mpc # "idle") ~> (mpc = "ret")
        /\ [](ret.op = "MuxClose" => MuxTasksEnded)

\* what holds of a tcpPacketConn once it is closed with all its connections
ClosedWithConns(p) ==
    /\ isClosed(p)
    /\ Registered(p) = {}
    /\ \A c \in Conns : tp[c] = p => connClosed[c] >= 1

\* C6: at the step of TCPMuxDefault.Close that clears the tables, every
\* tcpPacketConn registered in them has its closing signal fired, an empty
\* connection map and every connection it held closed; and that stays so.
C6_ClosePropagates ==
    /\ [][MuxCloseUnlock =>
            \A p \in InTable(connsIPv4) \cup InTable(connsIPv6) :
                ClosedWithConns(p)]_vars
    /\ [][\A p \in PacketConns :
            ClosedWithConns(p) => ClosedWithConns(p)']_vars

\* Close has cleared the tables after closing a tcpPacketConn of each family,
\* one of which held a connection
C6_Witness ==
    /\ mpc = "wait"
    /\ made = {1, 2}
    /\ isClosed(1) /\ isClosed(2)
    /\ cl_p[MuxCloser] # NoPacketConn
    /\ \A k \in ExtClosers \cup Watchers : cl_pc[k] = "idle"
    /\ \E c \in Conns : tp[c] # NoPacketConn /\ connClosed[c] = 1

\* C7: once m.closed is set, GetConnByUfrag returns ErrClosedPipe and no
\* connection for every ufrag and family, and leaves the tables, the
\* tcpPacketConns and the goroutines as they are.
C7_GetConnAfterClose ==
    [][\A u \in Ufrags : \A isIPv6 \in BOOLEAN :
          (m_closed /\ GetConnByUfrag(u, isIPv6)) =>
              /\ ret' = Ret("GetConnByUfrag", "ErrClosedPipe", NoPacketConn)
              /\ UNCHANGED <<aggState, muxVars>>]_vars

\* GetConnByUfrag was just refused by a closed router whose tables had held
\* a tcpPacketConn
C7_Witness ==
    /\ ret = Ret("GetConnByUfrag", "ErrClosedPipe", NoPacketConn)
    /\ m_closed
    /\ made # {}

\* the error records of connection c that were ever put in recvChan: those
\* still queued and the one ReadFrom returned (the error record is the last
\* record of its connection, with index nread[c] + 1)
ErrEnqueued(c) ==
    Len(SelectSeq(recvChan[tp[c]], LAMBDA r : r.conn = c /\ r.err))
        + (IF lastRecv[c] = nread[c] + 1 THEN 1 ELSE 0)

\* a step by which the goroutine of c handles a read fault
FaultStep(c) ==
    \/ ReadFault(c)
    \/ tpkt[c].err /\ (HandleRecvLock(c) \/ HandleRecvSend(c))
    \/ RemoveConn(c)

\* C11: a read fault on a connection of an open tcpPacketConn puts exactly
\* one error record of that connection in recvChan, removes and closes that
\* connection only and ends its goroutine only; the other connections stay
\* registered and open, their goroutines and their records untouched.
C11_FaultScoped ==
    /\ [](\A c \in Conns :
            /\ tp[c] # NoPacketConn => ErrEnqueued(c) <= 1
            /\ (tpc[c] = "done" /\ ~isClosed(tp[c])) => ErrEnqueued(c) = 1)
    /\ [][\A c \in Conns :
            (FaultStep(c) /\ ~isClosed(tp[c])) =>
                /\ \A d \in Conns \ {c} :
                       /\ tpc'[d] = tpc[d]
                       /\ connClosed'[d] = connClosed[d]
                       /\ tp[d] = tp[c] =>
                              RecordsOf(recvChan'[tp[c]], d)
                                  = RecordsOf(recvChan[tp[c]], d)
                       /\ d \in Registered(tp[c]) => d \in Registered(tp[c])'
                /\ RemoveConn(c) =>
                       /\ c \in Registered(tp[c])
                       /\ Registered(tp[c])' = Registered(tp[c]) \ {c}
                       /\ connClosed[c] = 0 /\ connClosed'[c] = 1
                       /\ tpc'[c] = "done"]_vars

\* one connection was removed on a read fault and its error record returned,
\* and ReadFrom has just returned a frame of a sibling that is still
\* registered and open
C11_Witness ==
    \E c \in Conns : \E d \in Conns \ {c} :
        /\ tpc[c] = "done" /\ ~isClosed(1)
        /\ lastRecv[c] = nread[c] + 1
        /\ connClosed[c] = 1
        /\ conns[1][AddrOf(d)] = d /\ connClosed[d] = 0
        /\ ret = Ret("ReadFrom", "nil", d)
        /\ lastRecv[d] = 1

\* the consumer goes on calling ReadFrom: a call that can return does
ConsumerReads == WF_vars(\E short \in BOOLEAN : ReadFrom(1, short))

\* recvChan is closed and holds no record
Drained(p) == recvClosed[p] > 0 /\ recvChan[p] = <<>>

\* C12: ReadFrom returns ErrClosedPipe exactly when recvChan is closed and
\* empty: never while the tcpPacketConn is open or a record is queued, always
\* once it is closed and drained; a queued record is returned oldest first;
\* and once Close is called a consumer that goes on reading gets there.
C12_ReadFromClosed ==
    /\ [][\A p \in PacketConns : \A short \in BOOLEAN :
            ReadFrom(p, short) =>
                /\ (ret'.err = "ErrClosedPipe") <=> Drained(p)
                /\ Drained(p) => isClosed(p)
                /\ recvChan[p] # <<>> =>
                       /\ ret'.val = Head(recvChan[p]).conn
                       /\ recvChan'[p] = Tail(recvChan[p])]_vars
    /\ [][\A p \in PacketConns : Drained(p) => Drained(p)']_vars
    /\ ConsumerReads => (isClosed(1) ~> Drained(1))

\* after Close, ReadFrom returned a record that was still queued, and now
\* has returned ErrClosedPipe
C12_Witness ==
    /\ ret = Ret("ReadFrom", "ErrClosedPipe", 0)
    /\ Drained(1)
    /\ \E c \in Conns : lastRecv[c] >= 1 /\ tfirst[c]
    /\ \A k \in ExtClosers : cl_pc[k] = "ret"

\* C13: WriteTo to an address under which no connection is registered
\* returns ErrClosedPipe, writes to no connection and changes nothing; no
\* connection is registered once the closing signal has fired, nor under the
\* address of a connection that removeConn has just removed.
C13_WriteToNoConn ==
    /\ [][\A p \in PacketConns : \A a \in Addrs :
            (WriteTo(p, a) /\ conns[p][a] = NoConn) =>
                /\ ret' = Ret("WriteTo", "ErrClosedPipe", NoConn)
                /\ UNCHANGED <<aggState, muxVars>>]_vars
    /\ [](\A p \in PacketConns : isClosed(p) => Registered(p) = {})
    /\ [][\A c \in Conns :
            RemoveConn(c) => conns'[tp[c]][AddrOf(c)] = NoConn]_vars

\* WriteTo has just failed on an open tcpPacketConn whose only connection
\* was removed on a read fault
C13_Witness ==
    /\ ret = Ret("WriteTo", "ErrClosedPipe", NoConn)
    /\ ~isClosed(1)
    /\ Registered(1) = {}
    /\ \E c \in Conns : tp[c] = 1 /\ tpc[c] = "done" /\ connClosed[c] = 1

\* C14: the i-th call of readStreamingPacket returns the i-th payload
\* written by writeStreamingPacket and its length, however conn.Read splits
\* the bytes, as long as cap(buf) is at least the length of every payload so
\* far and the stream has not failed.
C14_FramingRoundTrip ==
    \A i \in 1 .. Len(got) :
        (\A j \in 1 .. i : got[j].err # "EOF" /\ Len(payloads[j]) <= bufcap) =>
            /\ i <= nsent
            /\ got[i].err = "nil"
            /\ got[i].data = payloads[i]
            /\ got[i].n = Len(payloads[i])

\* the long payload and then a payload that reads as a header were written
\* and read back, each with a conn.Read that returned part of what was asked
C14_Witness ==
    /\ Len(got) = 2
    /\ payloads = <<LongPayload, <<0, 1>> >>
    /\ got[1].data = LongPayload /\ got[1].split
    /\ got[2].data = <<0, 1>> /\ got[2].split

\* a STUN Binding Request that carries a USERNAME
BindingRequestWithUsername(msg) ==
    /\ msg.decodes
    /\ msg.method = "Binding"
    /\ msg.class = "Request"
    /\ msg.hasUsername

\* C15: handleConn closes a connection whose first frame is not a Binding
\* Request with a USERNAME, adds it to no tcpPacketConn, creates none and
\* leaves the accept loop running; a connection that is routed is added to
\* the tcpPacketConn registered under the part of the username before the
\* first colon and the family of the peer address.
C15_FailsClosed ==
    [][/\ \A c \in Conns : \A msg \in Messages :
             /\ (~BindingRequestWithUsername(msg)
                   /\ (HandleConnReject(c, msg) \/ HandleConnStun(c, msg))) =>
                    /\ connClosed'[c] = connClosed[c] + 1
                    /\ hpc'[c] = "done"
                    /\ UNCHANGED <<made, conns, tp, connsIPv4, connsIPv6, apc>>
             /\ HandleConnStun(c, msg) =>
                    hufrag'[c] = BeforeColon(msg.username)[1]
       /\ \A c \in Conns :
             (HandleConnRoute(c, TRUE) /\ tp'[c] # NoPacketConn) =>
                 tp'[c] = getConn(hufrag[c], IsIPv6(AddrOf(c)))']_vars

\* C16: a connection that was added to a tcpPacketConn is closed exactly
\* once: once it is no longer in t.conns it has been closed, and it is
\* never closed a second time.
C16_ClosedOnce ==
    \A c \in Conns :
        tp[c] # NoPacketConn =>
            /\ connClosed[c] <= 1
            /\ conns[tp[c]][AddrOf(c)] # c => connClosed[c] >= 1

\* the steps of the goroutine that createConn starts for tcpPacketConn p,
\* all of them inside RemoveConnByUfrag
WatcherStep(p) ==
    \/ RemoveLock(Watcher(p))
    \/ RemoveClosedIPv4(Watcher(p))
    \/ RemoveClosedIPv6(Watcher(p))

\* C17: the goroutine that createConn starts for a tcpPacketConn leaves
\* every other tcpPacketConn alone: no step of it closes another one, and
\* none removes another one from connsIPv4 or connsIPv6.
C17_WatcherOwnKey ==
    [][\A p \in PacketConns :
          WatcherStep(p) =>
              \A q \in PacketConns \ {p} :
                  /\ closedChan'[q] = closedChan[q]
                  /\ q \in InTable(connsIPv4) => q \in InTable(connsIPv4')
                  /\ q \in InTable(connsIPv6) => q \in InTable(connsIPv6')]_vars

\* C18: no goroutine holds m.mu while it is blocked: whoever holds m.mu is
\* not inside tcpPacketConn.Close at t.wg.Wait() with goroutines of that
\* tcpPacketConn still running.
C18_LockNotHeldBlocked ==
    \A k \in Closers :
        m_mu = k => ~(cl_pc[k] = "wait" /\ wg[cl_p[k]] > 0)

\* C19: once TCPMuxDefault.Close has set m.closed and replaced the tables,
\* connsIPv4 and connsIPv6 stay empty.
C19_TablesStayEmpty ==
    (m_closed /\ mpc \in {"wait", "ret"}) =>
        InTable(connsIPv4) \cup InTable(connsIPv6) = {}

\* the tcpPacketConns in whose conns connection c is registered
HoldersOf(c) == {p \in PacketConns : c \in Registered(p)}

\* C20: when handleConn has returned, the accepted connection is registered
\* in exactly one tcpPacketConn or has been closed.
C20_NoLeak ==
    \A c \in Conns :
        hpc[c] = "done" =>
            \/ Cardinality(HoldersOf(c)) = 1
            \/ connClosed[c] >= 1

====
